---- MODULE Spec2Model ----
(***************************************************************************)
(* Model of pyzabbix.ZabbixAPI (src/pyzabbix/__init__.py): the JSON-RPC    *)
(* request executor (do_request), the dynamic method call                  *)
(* (ZabbixAPIMethod.__call__), the session operations (login,              *)
(* check_authentication, is_authenticated) and the context manager         *)
(* (__enter__/__exit__).                                                   *)
(*                                                                         *)
(* The client is single threaded and every public operation is a blocking  *)
(* call, so one action is one whole call.  The server's answer to each     *)
(* posted envelope is an input of the action.                              *)
(***************************************************************************)
EXTENDS Integers, Sequences, FiniteSets, TLC

VARIABLES
    id,                 \* self.id
    auth,               \* self.auth
    use_api_token,      \* self.use_api_token
    version,            \* self.version ("" until detected)
    use_authenticate,   \* self.use_authenticate (constructor argument)
    detect_version,     \* self._detect_version (constructor argument)
    scope,              \* position of the caller: "out" or "in" a with-block
    attempts,           \* number of envelopes handed to session.post so far
    all_ok,             \* every envelope posted so far was answered by a result
    last,               \* observation of the last completed call
    server,             \* the server argument of the constructor
    url                 \* self.url

vars == << id, auth, use_api_token, version, use_authenticate, detect_version,
           scope, attempts, all_ok, last, server, url >>

-----------------------------------------------------------------------------
(* Bounds of the model *)

\* envelopes that may have been posted when a call starts
MaxAttempts == 3

\* length of the server argument, in symbols
MaxUrlLen == 4

-----------------------------------------------------------------------------
(* Values *)

\* api_token=None
NoToken == "<None>"

\* values of the api_token argument of login
ApiTokens == {NoToken, "", "T"}

\* session ids a server hands out on user.login / user.authenticate
SessionIds == {"s1", "s2"}

\* version strings a server may answer to apiinfo.version
VersionStrings == {"5.2.0", "5.4.0", "6.0.0", "5.4"}

\* the components of a version string
VersionParts(s) ==
    CASE s = "5.2.0" -> << 5, 2, 0 >>
      [] s = "5.4.0" -> << 5, 4, 0 >>
      [] s = "6.0.0" -> << 6, 0, 0 >>
      [] s = "5.4"   -> << 5, 4 >>
      [] OTHER       -> << >>

\* semantic_version.Version(s) accepts only major.minor.patch
VersionIsValid(s) == Len(VersionParts(s)) = 3

\* a >= b on semantic versions (precedence of major, minor, patch)
VersionGEStrict(a, b) ==
    LET x == VersionParts(a)
        y == VersionParts(b)
    IN  \/ x[1] > y[1]
        \/ x[1] = y[1] /\ x[2] > y[2]
        \/ x[1] = y[1] /\ x[2] = y[2] /\ x[3] > y[3]

VersionGE(a, b) ==
    LET x == VersionParts(a)
        y == VersionParts(b)
    IN  \/ x[1] > y[1]
        \/ x[1] = y[1] /\ x[2] > y[2]
        \/ x[1] = y[1] /\ x[2] = y[2] /\ x[3] >= y[3]

\* A URL is a sequence of symbols: "/" is the slash, "h" any other character
\* and "P" the text api_jsonrpc.php.
UrlSymbols == {"h", "/", "P"}

\* lines 101-102: "/api_jsonrpc.php"
Suffix == << "/", "P" >>

\* line 67: the default server, "http://localhost/zabbix"
DefaultServer == << "h", "/", "h" >>

\* the server arguments of the constructor
ServerUrls == UNION {[1..n -> UrlSymbols] : n \in 0..MaxUrlLen}

\* str.endswith
EndsWith(s, t) ==
    /\ Len(s) >= Len(t)
    /\ SubSeq(s, Len(s) - Len(t) + 1, Len(s)) = t

\* str.rstrip("/")
RECURSIVE RStripSlash(_)
RStripSlash(s) ==
    IF s # << >> /\ s[Len(s)] = "/"
    THEN RStripSlash(SubSeq(s, 1, Len(s) - 1))
    ELSE s

NormalizeUrlNoStrip(s) ==
    IF ~EndsWith(s, Suffix) THEN s \o Suffix ELSE s

\* lines 101-103
NormalizeUrl(s) ==
    IF ~EndsWith(s, Suffix) THEN RStripSlash(s) \o Suffix ELSE s

\* exceptions, by class; a ZabbixAPIException is told apart by what raised it
NoException == "None"
ZabbixAPIException ==
    {"ZabbixAPIException(error)",        \* line 255: the response has an error
     "ZabbixAPIException(empty)",        \* line 235: empty response text
     "ZabbixAPIException(json)"}         \* line 240: the text is no JSON
HTTPError == "HTTPError"                 \* resp.raise_for_status()
TransportError == "ConnectionError"      \* session.post itself raises
ValueError == "ValueError"               \* Version() on a malformed string
TypeError == "TypeError"                 \* args and kwargs together
OtherException == "KeyError"             \* any exception of the with-body

\* what a with-body can end with
BodyExceptions ==
    {NoException, HTTPError, TransportError, OtherException}
        \cup ZabbixAPIException

-----------------------------------------------------------------------------
(* The server: one response per posted envelope *)

Response(status, text, has_error, has_data, result) ==
    [status |-> status, text |-> text, has_error |-> has_error,
     has_data |-> has_data, result |-> result]

\* the results a server may give for a method
Results(method) ==
    CASE method = "apiinfo.version" -> VersionStrings
      [] method \in {"user.login", "user.authenticate"} -> SessionIds
      [] OTHER -> {"ok"}

Responses(method) ==
    {Response("unreachable", "", FALSE, FALSE, ""),
     Response("http_error", "", FALSE, FALSE, ""),
     Response("ok", "", FALSE, FALSE, ""),
     Response("ok", "garbage", FALSE, FALSE, ""),
     Response("ok", "json", TRUE, TRUE, ""),
     Response("ok", "json", TRUE, FALSE, "")}
        \cup {Response("ok", "json", FALSE, FALSE, r) : r \in Results(method)}

\* stands for the n-th response of a call for as long as it is not asked for
NotAsked(n) == Response("not asked", "", FALSE, FALSE, IF n = 1 THEN "1" ELSE "2")

\* the responses to choose from for a request of probe, the outcome computed
\* with the stand-in: those of the method if the call posts that request
Answers(probe, standin, method) ==
    IF \E j \in 1..Len(probe.io) : probe.io[j].resp = standin
    THEN Responses(method)
    ELSE {standin}

IsResult(resp) ==
    resp.status = "ok" /\ resp.text = "json" /\ ~resp.has_error

-----------------------------------------------------------------------------
(* The client *)

Client(i, a, t, v) == [id |-> i, auth |-> a, use_api_token |-> t, version |-> v]

Self == Client(id, auth, use_api_token, version)

\* the outcome of a call: the client after it, the envelopes it posted with
\* their responses, the exception it raised and the value it returned
Outcome(c, io, exc, ret) == [c |-> c, io |-> io, exc |-> exc, ret |-> ret]

\* lines 219-223: the methods that never carry the auth field
AttachAuthAlways(token, method) == token # ""

AttachAuth(token, method) ==
    /\ token # ""
    /\ method # "apiinfo.version"
    /\ method # "user.checkAuthentication"

\* lines 210-224: the envelope
Payload(c, method, params) ==
    [method |-> method,
     params |-> params,
     id |-> c.id,
     has_auth |-> AttachAuth(c.auth, method),
     auth |-> IF AttachAuth(c.auth, method) THEN c.auth ELSE ""]

\* line 246
NextIdStuck(i) == i

NextId(i) == i + 1

ErrorDataOverwritten(resp) == "No data"

\* lines 252-253: the data of the raised error
ErrorData(resp) == IF resp.has_data THEN "data" ELSE "No data"

\* lines 205-261
DoRequest(c, method, params, resp) ==
    LET io == << [req |-> Payload(c, method, params), resp |-> resp,
                  held |-> c.auth] >>
        after == [c EXCEPT !.id = NextId(c.id)]
    IN  IF resp.status = "unreachable"
        THEN Outcome(c, io, TransportError, "")
        ELSE IF resp.status # "ok"
        THEN Outcome(c, io, HTTPError, "")
        ELSE IF resp.text = ""
        THEN Outcome(c, io, "ZabbixAPIException(empty)", "")
        ELSE IF resp.text # "json"
        THEN Outcome(c, io, "ZabbixAPIException(json)", "")
        ELSE IF resp.has_error
        THEN Outcome(after, io, "ZabbixAPIException(error)", ErrorData(resp))
        ELSE Outcome(after, io, NoException, resp.result)

MethodCallUnchecked(c, method, params, resp) ==
    DoRequest(c, method, params, resp)

\* lines 280-284: params is "args", "kwargs", "both" or "none", or names the
\* keyword arguments
MethodCall(c, method, params, resp) ==
    IF params = "both"
    THEN Outcome(c, << >>, TypeError, "")
    ELSE DoRequest(c, method, params, resp)

ApiVersionForgetting(c, resp) ==
    LET o == MethodCall(c, "apiinfo.version", "none", resp)
    IN  IF o.exc # NoException
        THEN Outcome([o.c EXCEPT !.version = ""], o.io, o.exc, o.ret)
        ELSE o

\* lines 202-203
ApiVersion(c, resp) == MethodCall(c, "apiinfo.version", "none", resp)

\* lines 158-163
CheckAuthentication(c, resp) ==
    IF c.use_api_token
    THEN Outcome(c, << >>, NoException, "True")
    ELSE MethodCall(c, "user.checkAuthentication", "sessionid", resp)

IsAuthenticatedAlwaysAsks(c, resp) ==
    LET r == MethodCall(c, "user.checkAuthentication", "sessionid", resp)
    IN  IF r.exc \in ZabbixAPIException
        THEN Outcome(r.c, r.io, NoException, "False")
        ELSE IF r.exc # NoException
        THEN r
        ELSE Outcome(r.c, r.io, NoException, "True")

IsAuthenticatedDroppingToken(c, resp) ==
    IF c.use_api_token
    THEN Outcome(c, << >>, NoException, "True")
    ELSE LET r == MethodCall(c, "user.checkAuthentication", "sessionid", resp)
         IN  IF r.exc \in ZabbixAPIException
             THEN Outcome([r.c EXCEPT !.auth = ""], r.io, NoException, "False")
             ELSE IF r.exc # NoException
             THEN r
             ELSE Outcome(r.c, r.io, NoException, "True")

\* lines 165-175
IsAuthenticated(c, resp) ==
    IF c.use_api_token
    THEN Outcome(c, << >>, NoException, "True")
    ELSE LET r == MethodCall(c, "user.checkAuthentication", "sessionid", resp)
         IN  IF r.exc \in ZabbixAPIException
             THEN Outcome(r.c, r.io, NoException, "False")
             ELSE IF r.exc # NoException
             THEN r
             ELSE Outcome(r.c, r.io, NoException, "True")

\* lines 177-200
Confimport(c, resp) ==
    MethodCall(c, "configuration.import", "format,source,rules", resp)

\* lines 151-156: the request that obtains the session id
CredentialRequest(legacy, ver) ==
    IF legacy
    THEN [method |-> "user.authenticate", params |-> "user,password"]
    ELSE IF ver # "" /\ VersionGE(ver, "5.4.0")
    THEN [method |-> "user.login", params |-> "username,password"]
    ELSE [method |-> "user.login", params |-> "user,password"]

KeptAuth(a) == a

\* line 150
ClearedAuth(a) == ""

\* lines 121-156
Login(c, api_token, r1, r2) ==
    LET v == IF detect_version
             THEN ApiVersion(c, r1)
             ELSE Outcome(c, << >>, NoException, "")
    IN  IF v.exc # NoException
        THEN Outcome(v.c, v.io, v.exc, "")
        ELSE IF detect_version /\ ~VersionIsValid(v.ret)
        THEN Outcome(v.c, v.io, ValueError, "")
        ELSE
          LET c1 == IF detect_version
                    THEN [v.c EXCEPT !.version = v.ret]
                    ELSE v.c
          IN  IF api_token # NoToken
              THEN Outcome([c1 EXCEPT !.use_api_token = TRUE,
                                      !.auth = api_token],
                           v.io, NoException, "None")
              ELSE
                LET c2 == [c1 EXCEPT !.auth = ClearedAuth(c1.auth)]
                    rq == CredentialRequest(use_authenticate, c2.version)
                    r  == MethodCall(c2, rq.method, rq.params, r2)
                IN  IF r.exc # NoException
                    THEN Outcome(r.c, v.io \o r.io, r.exc, "")
                    ELSE Outcome([r.c EXCEPT !.auth = r.ret],
                                 v.io \o r.io, NoException, "None")

ExitHandlesAnything(e) == TRUE

\* line 114: the exceptions __exit__ deals with
ExitHandles(e) == e \in ZabbixAPIException \cup {NoException}

ExitLogsOutUnchecked(authenticated, token_flag) == ~token_flag

\* line 115: whether __exit__ logs out, given what is_authenticated returned
ExitLogsOut(authenticated, token_flag) == authenticated = "True" /\ ~token_flag

\* lines 113-119: ret is "True" (the exception is suppressed) or "None"
Exit(c, exception_value, r1, r2) ==
    IF ExitHandles(exception_value)
    THEN LET a == IsAuthenticated(c, r1)
         IN  IF a.exc # NoException
             THEN Outcome(a.c, a.io, a.exc, "")
             ELSE IF ExitLogsOut(a.ret, a.c.use_api_token)
             THEN LET lo == MethodCall(a.c, "user.logout", "none", r2)
                  IN  IF lo.exc # NoException
                      THEN Outcome(lo.c, a.io \o lo.io, lo.exc, "")
                      ELSE Outcome(lo.c, a.io \o lo.io, NoException, "True")
             ELSE Outcome(a.c, a.io, NoException, "True")
    ELSE Outcome(c, << >>, NoException, "None")

-----------------------------------------------------------------------------
(* The state machine *)

\* methods called through client.<object>.<method>(...)
CalledMethods == {"host.get", "user.logout", "user.checkAuthentication"}

\* how a method is called: no argument, positional, keyword, or both
CallShapes == {"none", "args", "kwargs", "both"}

Observation(op, arg, params, o) ==
    [op |-> op, arg |-> arg, params |-> params, pre |-> Self,
     io |-> o.io, exc |-> o.exc, ret |-> o.ret]

\* the call ends with outcome o
Finish(op, arg, params, o) ==
    /\ id' = o.c.id
    /\ auth' = o.c.auth
    /\ use_api_token' = o.c.use_api_token
    /\ version' = o.c.version
    /\ attempts' = attempts + Len(o.io)
    /\ all_ok' = (all_ok /\ \A j \in 1..Len(o.io) : IsResult(o.io[j].resp))
    /\ last' = Observation(op, arg, params, o)
    /\ UNCHANGED << use_authenticate, detect_version, server, url >>

\* lines 65-107: the client constructed for one of the servers
Constructed(servers) ==
    /\ id = 0
    /\ auth = ""
    /\ use_api_token = FALSE
    /\ version = ""
    /\ use_authenticate \in BOOLEAN
    /\ detect_version \in BOOLEAN
    /\ scope = "out"
    /\ attempts = 0
    /\ all_ok = TRUE
    /\ last = [op |-> "__init__", arg |-> "", params |-> "",
               pre |-> Client(0, "", FALSE, ""), io |-> << >>,
               exc |-> NoException, ret |-> "None"]
    /\ server \in servers
    /\ url = NormalizeUrl(server)

\* the client of the default server
Init == Constructed({DefaultServer})

LoginCall ==
    /\ attempts < MaxAttempts
    /\ \E api_token \in ApiTokens :
       \E r1 \in Answers(Login(Self, api_token, NotAsked(1), NotAsked(2)),
                         NotAsked(1), "apiinfo.version") :
       \E r2 \in Answers(Login(Self, api_token, r1, NotAsked(2)),
                         NotAsked(2), "user.login") :
          Finish("login", api_token, "", Login(Self, api_token, r1, r2))
    /\ UNCHANGED scope

CheckAuthenticationCall ==
    /\ attempts < MaxAttempts
    /\ \E r \in Answers(CheckAuthentication(Self, NotAsked(1)),
                        NotAsked(1), "user.checkAuthentication") :
          Finish("check_authentication", "", "", CheckAuthentication(Self, r))
    /\ UNCHANGED scope

IsAuthenticatedCall ==
    /\ attempts < MaxAttempts
    /\ \E r \in Answers(IsAuthenticated(Self, NotAsked(1)),
                        NotAsked(1), "user.checkAuthentication") :
          Finish("is_authenticated", "", "", IsAuthenticated(Self, r))
    /\ UNCHANGED scope

ApiVersionCall ==
    /\ attempts < MaxAttempts
    /\ \E r \in Responses("apiinfo.version") :
          Finish("api_version", "", "", ApiVersion(Self, r))
    /\ UNCHANGED scope

ConfimportCall ==
    /\ attempts < MaxAttempts
    /\ \E r \in Responses("configuration.import") :
          Finish("confimport", "", "", Confimport(Self, r))
    /\ UNCHANGED scope

MethodCallCall ==
    /\ attempts < MaxAttempts
    /\ \E method \in CalledMethods :
       \E params \in CallShapes :
       \E r \in Answers(MethodCall(Self, method, params, NotAsked(1)),
                        NotAsked(1), method) :
          Finish("__call__", method, params, MethodCall(Self, method, params, r))
    /\ UNCHANGED scope

\* lines 109-110
EnterCall ==
    /\ scope = "out"
    /\ scope' = "in"
    /\ Finish("__enter__", "", "", Outcome(Self, << >>, NoException, "self"))

ExitCall ==
    /\ scope = "in"
    /\ attempts < MaxAttempts
    /\ scope' = "out"
    /\ \E e \in BodyExceptions :
       \E r1 \in Answers(Exit(Self, e, NotAsked(1), NotAsked(2)),
                         NotAsked(1), "user.checkAuthentication") :
       \E r2 \in Answers(Exit(Self, e, r1, NotAsked(2)),
                         NotAsked(2), "user.logout") :
          Finish("__exit__", e, "", Exit(Self, e, r1, r2))

Next ==
    \/ LoginCall
    \/ CheckAuthenticationCall
    \/ IsAuthenticatedCall
    \/ ApiVersionCall
    \/ ConfimportCall
    \/ MethodCallCall
    \/ EnterCall
    \/ ExitCall

Spec == Init /\ [][Next]_vars

\* lines 65-107: a client is constructed for the endpoint of this one (the
\* normalized URL is a server argument like any other)
ConstructFromUrl ==
    /\ server' = url
    /\ url' = NormalizeUrl(url)
    /\ id' = 0
    /\ auth' = ""
    /\ use_api_token' = FALSE
    /\ version' = ""
    /\ scope' = "out"
    /\ attempts' = 0
    /\ all_ok' = TRUE
    /\ last' = [op |-> "__init__", arg |-> "", params |-> "",
                pre |-> Client(0, "", FALSE, ""), io |-> << >>,
                exc |-> NoException, ret |-> "None"]
    /\ UNCHANGED << use_authenticate, detect_version >>

\* the constructor, over the server arguments
InitUrl == Constructed(ServerUrls)

NextUrl == ConstructFromUrl

SpecUrl == InitUrl /\ [][NextUrl]_vars

-----------------------------------------------------------------------------
(* Properties *)

\* the session states of the client
ByToken(c) == c.use_api_token
ByCredentials(c) == ~c.use_api_token /\ c.auth # ""
Unauthenticated(c) == ~c.use_api_token /\ c.auth = ""

\* the requests of the last call that went to one of the methods
Posted(methods) == {j \in 1..Len(last.io) : last.io[j].req.method \in methods}

\* the last call posted a request to the method and got a result for it
Succeeded(method) ==
    \E j \in Posted({method}) : IsResult(last.io[j].resp)

\* __exit__ returned True: nothing leaves the with-block
Suppressed == last.exc = NoException /\ last.ret = "True"

\* __exit__ returned None and raised nothing: the exception of the body goes on
Propagated == last.exc = NoException /\ last.ret = "None"

\* C1: every request attempt advances the id counter by exactly one, whatever
\* its outcome: after a call the counter is its value before the call plus
\* the number of envelopes the call posted.
C1_IdAdvancesOncePerAttempt == id = last.pre.id + Len(last.io)

\* C2: as long as every call so far was successful, the k-th envelope posted
\* carries id k-1 (the initial id 0 plus k-1), and the counter equals the
\* number of envelopes posted.
C2_KthRequestCarriesIdKMinusOne ==
    all_ok =>
        /\ id = attempts
        /\ \A j \in 1..Len(last.io) :
              last.io[j].req.id = (attempts - Len(last.io)) + j - 1

C2_ThreeSuccessfulCalls ==
    all_ok /\ attempts >= 3 /\ Len(last.io) >= 1

\* C3 as stated: an ApiError raised in the scope while authenticated by
\* credentials makes scope exit post user.logout exactly once and nothing
\* leaves the scope; an exception that is neither ApiError nor ProtocolError
\* propagates and scope exit posts no logout.
C3_LogoutOnceAndSuppressed ==
    last.op = "__exit__" =>
        /\ (last.arg = "ZabbixAPIException(error)" /\ ByCredentials(last.pre))
              => (Cardinality(Posted({"user.logout"})) = 1 /\ Suppressed)
        /\ last.arg = OtherException
              => (Propagated /\ Posted({"user.logout"}) = {})

\* C3 amended: an ApiError raised in the scope while authenticated by
\* credentials, when the authentication check of scope exit succeeds, makes
\* scope exit post user.logout exactly once; nothing leaves the scope if that
\* logout succeeds, and the error of the logout leaves it otherwise.  When
\* the authentication check does not succeed no logout is posted.  An
\* exception that is neither ApiError nor ProtocolError propagates and scope
\* exit posts nothing.
C3_LogoutOnceWhenCheckSucceeds ==
    last.op = "__exit__" =>
        /\ ( /\ last.arg = "ZabbixAPIException(error)"
             /\ ByCredentials(last.pre)
             /\ Succeeded("user.checkAuthentication") )
              => /\ Cardinality(Posted({"user.logout"})) = 1
                 /\ Succeeded("user.logout") => Suppressed
                 /\ ~Succeeded("user.logout") => last.exc # NoException
        /\ ( /\ last.arg = "ZabbixAPIException(error)"
             /\ ByCredentials(last.pre)
             /\ ~Succeeded("user.checkAuthentication") )
              => Posted({"user.logout"}) = {}
        /\ last.arg = OtherException
              => (Propagated /\ last.io = << >>)

C3_ApiErrorInScopeLoggedOut ==
    /\ last.op = "__exit__"
    /\ last.arg = "ZabbixAPIException(error)"
    /\ ByCredentials(last.pre)
    /\ Succeeded("user.checkAuthentication")
    /\ Succeeded("user.logout")
    /\ Suppressed

\* C4: scope exit suppresses an ApiError/ProtocolError of the scope only if it
\* posted a logout request in that exit and the logout succeeded.
C4_SuppressedOnlyAfterLogout ==
    ( /\ last.op = "__exit__"
      /\ last.arg \in ZabbixAPIException
      /\ Suppressed )
        => Succeeded("user.logout")

\* C5: in the states Unauthenticated and AuthenticatedByToken scope exit posts
\* no request and leaves the id counter, the token and the token flag as they
\* were, whatever the exception of the scope.
C5_ExitDoesNothing ==
    ( /\ last.op = "__exit__"
      /\ (Unauthenticated(last.pre) \/ ByToken(last.pre)) )
        => /\ last.io = << >>
           /\ id = last.pre.id
           /\ auth = last.pre.auth
           /\ use_api_token = last.pre.use_api_token

\* after a login with an api_token the token is stored as given, the token
\* flag is set and at most the version query was posted; with the flag set
\* is_authenticated returns True, posts nothing and leaves the id counter alone
C6_TokenLoginState ==
    /\ (last.op = "login" /\ last.arg # NoToken /\ last.exc = NoException)
          => /\ auth = last.arg
             /\ use_api_token
             /\ Len(last.io) <= 1
             /\ Posted({"apiinfo.version"}) = 1..Len(last.io)
    /\ (last.op = "is_authenticated" /\ last.pre.use_api_token)
          => /\ last.ret = "True"
             /\ last.exc = NoException
             /\ last.io = << >>
             /\ id = last.pre.id

\* C6: the state property above holds always, and the token flag set by a
\* login with an api_token is never reset, so every later is_authenticated
\* is answered without the server.
C6_TokenLoginNeverAsksServer ==
    /\ []C6_TokenLoginState
    /\ [][use_api_token => use_api_token']_vars

C6_IsAuthenticatedAfterTokenLogin ==
    /\ last.op = "is_authenticated"
    /\ last.pre.use_api_token
    /\ last.pre.auth = "T"
    /\ last.ret = "True"

\* C7: outside the token state is_authenticated returns True when the check
\* succeeds, False when the response carries an error, and lets every other
\* failure of the check (empty body, undecodable body, HTTP status, transport)
\* propagate.
C7_OnlyApiErrorBecomesFalse ==
    (last.op = "is_authenticated" /\ ~last.pre.use_api_token) =>
        LET r == last.io[1].resp
        IN  /\ IsResult(r) => (last.ret = "True" /\ last.exc = NoException)
            /\ (r.status = "ok" /\ r.text = "json" /\ r.has_error)
                  => (last.ret = "False" /\ last.exc = NoException)
            /\ ~(r.status = "ok" /\ r.text = "json")
                  => last.exc # NoException

\* the request a credential login is to post, by mode and detected version
AtLeast54(ver) ==
    /\ ver # ""
    /\ LET p == VersionParts(ver)
       IN  p[1] > 5 \/ (p[1] = 5 /\ p[2] >= 4)

PostsTheChosenLogin ==
    /\ Cardinality(Posted({"user.login", "user.authenticate"})) = 1
    /\ \A j \in Posted({"user.login", "user.authenticate"}) :
          LET q == last.io[j].req
          IN  /\ use_authenticate
                    => (q.method = "user.authenticate"
                          /\ q.params = "user,password")
              /\ (~use_authenticate /\ AtLeast54(version))
                    => (q.method = "user.login"
                          /\ q.params = "username,password")
              /\ (~use_authenticate /\ ~AtLeast54(version))
                    => (q.method = "user.login"
                          /\ q.params = "user,password")

\* the version detection of the last login went through, or was not asked for
VersionStepPassed ==
    \/ ~detect_version
    \/ /\ Succeeded("apiinfo.version")
       /\ \A j \in Posted({"apiinfo.version"}) :
             VersionIsValid(last.io[j].resp.result)

\* C8 as stated: every credential login posts exactly one token-obtaining
\* request, chosen by legacy mode and detected version; never two, never none.
C8_ExactlyOneLoginRequest ==
    (last.op = "login" /\ last.arg = NoToken) => PostsTheChosenLogin

\* C8 amended: every credential login whose version detection goes through
\* (or is switched off) posts exactly one token-obtaining request, chosen by
\* legacy mode and detected version; a credential login whose version query
\* fails posts none.
C8_ExactlyOneLoginRequestAfterVersion ==
    (last.op = "login" /\ last.arg = NoToken) =>
        /\ VersionStepPassed => PostsTheChosenLogin
        /\ ~VersionStepPassed
              => Posted({"user.login", "user.authenticate"}) = {}

C8_LoginAtExactly540 ==
    /\ last.op = "login"
    /\ last.arg = NoToken
    /\ ~use_authenticate
    /\ version = "5.4.0"
    /\ \E j \in Posted({"user.login"}) :
          last.io[j].req.params = "username,password"

\* C9: no request posted during a credential login carries an auth field,
\* whatever token the client held before.
C9_CredentialLoginSendsNoAuth ==
    (last.op = "login" /\ last.arg = NoToken) =>
        \A j \in 1..Len(last.io) : ~last.io[j].req.has_auth

C9_LoginWithStaleToken ==
    /\ last.op = "login"
    /\ last.arg = NoToken
    /\ last.pre.auth # ""
    /\ Posted({"user.login", "user.authenticate"}) # {}

\* C10: an envelope carries the auth field exactly when the client holds a
\* non-empty token as it is sent and the method is neither apiinfo.version
\* nor user.checkAuthentication, and the field then is the held token.
C10_AuthFieldIffTokenAndNotExempt ==
    \A j \in 1..Len(last.io) :
        LET e == last.io[j]
        IN  /\ e.req.has_auth <=>
                  ( /\ e.held # ""
                    /\ e.req.method \notin
                          {"apiinfo.version", "user.checkAuthentication"} )
            /\ e.req.has_auth => e.req.auth = e.held

C10_ExemptAndAuthenticatedRequests ==
    /\ Len(last.io) = 2
    /\ last.io[1].held # ""
    /\ last.io[1].req.method = "user.checkAuthentication"
    /\ ~last.io[1].req.has_auth
    /\ last.io[2].req.has_auth
    /\ last.io[2].req.auth = last.io[2].held

\* the calls that hand the outcome of do_request to the caller as it is
DirectCalls == {"__call__", "api_version", "confimport", "check_authentication"}

\* the response has an error key
IsErrorResponse(resp) ==
    resp.status = "ok" /\ resp.text = "json" /\ resp.has_error

\* C11: a method called with both positional and keyword parameters fails
\* with the caller-misuse error (TypeError in the code), posts no request and
\* leaves the id counter, the token and the rest of the client unchanged.
C11_BothArgsAndKwargsRejected ==
    (last.op = "__call__" /\ last.params = "both") =>
        /\ last.exc = TypeError
        /\ last.io = << >>
        /\ Self = last.pre

C11_MisuseWhileAuthenticated ==
    /\ last.op = "__call__"
    /\ last.params = "both"
    /\ last.exc = TypeError
    /\ auth # ""
    /\ id > 0

C13_HttpStatusIsSameErrorKind ==
    /\ ( /\ last.op \in DirectCalls
         /\ last.io # << >>
         /\ last.io[1].resp.status = "http_error" )
          => last.exc \in ZabbixAPIException
    /\ ( /\ last.op = "__exit__"
         /\ last.arg = HTTPError
         /\ ~last.pre.use_api_token )
          => Posted({"user.checkAuthentication"}) # {}

\* the server argument is b followed by n slashes
IsFollowedBySlashes(b, n) ==
    /\ n <= Len(server)
    /\ b = SubSeq(server, 1, Len(server) - n)
    /\ \A k \in (Len(server) - n + 1)..Len(server) : server[k] = "/"

\* C14 as stated: for every base B that does not end with the suffix, B
\* followed by any number of slashes is normalized to B + suffix, which is
\* also what B + suffix is normalized to; a normalized endpoint is unchanged.
C14_SlashesAndSuffixAgree ==
    /\ EndsWith(server, Suffix) => url = server
    /\ \A n \in 0..Len(server) :
          LET b == SubSeq(server, 1, Len(server) - n)
          IN  (IsFollowedBySlashes(b, n) /\ ~EndsWith(b, Suffix))
                 => url = b \o Suffix

\* C14 amended: for every base B that ends neither with a slash nor with the
\* suffix, B followed by any number of slashes is normalized to B + suffix,
\* which is also what B + suffix is normalized to; a normalized endpoint is
\* unchanged.
C14_SlashesAndSuffixAgreeForStrippedBase ==
    /\ EndsWith(server, Suffix) => url = server
    /\ \A n \in 0..Len(server) :
          LET b == SubSeq(server, 1, Len(server) - n)
          IN  ( /\ IsFollowedBySlashes(b, n)
                /\ ~EndsWith(b, Suffix)
                /\ (b = << >> \/ b[Len(b)] # "/") )
                 => url = b \o Suffix

C14_TwoTrailingSlashes ==
    /\ server = << "h", "/", "/" >>
    /\ url = << "h", "/", "P" >>

\* C15: after a successful credential login, whatever the state before, the
\* session is authenticated by credentials: the returned session id is held
\* and the token flag is off, so is_authenticated asks the server and scope
\* exit logs out.
C15_CredentialLoginGivesCredentialState ==
    (last.op = "login" /\ last.arg = NoToken /\ last.exc = NoException) =>
        /\ auth = last.io[Len(last.io)].resp.result
        /\ ByCredentials(Self)

\* C16: with version detection on, login posts the version query only while
\* no version is stored; a login of a client that has a version posts no
\* version query and leaves the version as it is.
C16_VersionQueriedOnlyOnce ==
    (last.op = "login" /\ detect_version /\ last.pre.version # "") =>
        /\ Posted({"apiinfo.version"}) = {}
        /\ version = last.pre.version

\* C17: in scope exit of a session authenticated by credentials, with no
\* exception or a ZabbixAPIException, the authentication check is posted
\* first and user.logout only after it succeeded; a check that fails with a
\* ZabbixAPIException is followed by no logout; the error of a failing logout
\* leaves scope exit.
C17_CheckThenLogout ==
    ( /\ last.op = "__exit__"
      /\ ByCredentials(last.pre)
      /\ last.arg \in ZabbixAPIException \cup {NoException} )
        => /\ Len(last.io) >= 1
           /\ last.io[1].req.method = "user.checkAuthentication"
           /\ Posted({"user.logout"}) \subseteq {2}
           /\ Posted({"user.logout"}) # {} => IsResult(last.io[1].resp)
           /\ (last.io[1].resp.status = "ok" /\ ~IsResult(last.io[1].resp))
                 => (Len(last.io) = 1 /\ last.exc = NoException)
           /\ (Posted({"user.logout"}) # {} /\ ~Succeeded("user.logout"))
                 => (last.exc # NoException /\ last.ret # "True")

C17_LogoutFailsAfterCheck ==
    /\ last.op = "__exit__"
    /\ ByCredentials(last.pre)
    /\ Succeeded("user.checkAuthentication")
    /\ Posted({"user.logout"}) = {2}
    /\ ~Succeeded("user.logout")
    /\ last.exc # NoException

\* C18: when the authentication request of a credential login fails, the
\* client holds the empty token afterwards, whatever token it held before.
C18_FailedLoginLeavesEmptyToken ==
    ( /\ last.op = "login"
      /\ last.arg = NoToken
      /\ Posted({"user.login", "user.authenticate"}) # {}
      /\ last.exc # NoException )
        => auth = ""

C18_FailedLoginDropsHeldToken ==
    /\ last.op = "login"
    /\ last.arg = NoToken
    /\ Posted({"user.login", "user.authenticate"}) # {}
    /\ last.exc # NoException
    /\ last.pre.auth # ""
    /\ auth = ""

\* after a successful logout, by call or at scope exit, the token is the one
\* held before, and that logout carried it
LogoutKeepsToken ==
    (last.op \in {"__call__", "__exit__"} /\ Succeeded("user.logout")) =>
        /\ auth = last.pre.auth
        /\ \A j \in Posted({"user.logout"}) :
              last.io[j].req.has_auth <=> auth # ""

\* C19: only login changes the held token; every other call, a logout and
\* scope exit included, leaves it as it is, so after a logout the client
\* still holds the old token.
C19_OnlyLoginChangesToken ==
    /\ [][auth' # auth => last'.op = "login"]_vars
    /\ []LogoutKeepsToken

C19_TokenHeldAfterLogout ==
    /\ last.op = "__exit__"
    /\ Succeeded("user.logout")
    /\ auth # ""
    /\ auth = last.pre.auth

\* C20: when the version query at the start of login fails (or its answer is
\* no version), login ends with the token, the token flag and the version as
\* they were, with and without an api_token.
C20_FailedVersionQueryLeavesSession ==
    ( /\ last.op = "login"
      /\ Posted({"apiinfo.version"}) # {}
      /\ \/ ~Succeeded("apiinfo.version")
         \/ ~VersionIsValid(last.io[1].resp.result) )
        => /\ last.exc # NoException
           /\ Len(last.io) = 1
           /\ auth = last.pre.auth
           /\ use_api_token = last.pre.use_api_token
           /\ version = last.pre.version

C20_TokenLoginAbortedByVersionQuery ==
    /\ last.op = "login"
    /\ last.arg = "T"
    /\ ~Succeeded("apiinfo.version")
    /\ Posted({"apiinfo.version"}) # {}
    /\ last.pre.version # ""
    /\ auth = last.pre.auth
    /\ auth # "T"

====
